---- MODULE Spec2Model ----
(***************************************************************************)
(* The download queue of old_archiver/queue.mjs: the module-level state    *)
(* (downloadQueue, failedAreas, downloadTimer), the exported operations    *)
(* appendDownloadQueue, queueSearch and startDownloadQueue, and the timer   *)
(* callback processQueueStep.  JavaScript runs these on one thread, so a   *)
(* step of the model is the code that runs between two suspension points   *)
(* (a callback being scheduled, or an await).                              *)
(***************************************************************************)
EXTENDS Integers, Sequences, FiniteSets, TLC

\* ---------------------------------------------------------------- bounds
MaxAreas == 2       \* longest areas list of a search response
MaxSearches == 2    \* queueSearch calls in a run
MaxAppends == 1     \* appendDownloadQueue calls in a run
MaxStarts == 2      \* startDownloadQueue calls in a run
MaxPops == 2        \* entries the drain loop takes off the queue in a run

\* ------------------------------------------------------- JavaScript values
\* Reading a property an object does not have yields undefined.
Undefined == "undefined"
Null == "null"

Get(obj, field) == IF field \in DOMAIN obj THEN obj[field] ELSE Undefined

\* A property other than length/index read from a primitive string.
GetOfString(str, field) == Undefined

\* ------------------------------------------------------ the remote service
\* The units a search can discover: results.areas[i] carries name and id.
Units == {[name |-> "A", id |-> "a1"], [name |-> "B", id |-> "a2"]}

RECURSIVE SeqsUpTo(_, _)
SeqsUpTo(S, n) ==
  IF n = 0 THEN {<<>>}
  ELSE LET shorter == SeqsUpTo(S, n - 1)
       IN  shorter \cup {Append(q, x) : q \in {r \in shorter : Len(r) = n - 1}, x \in S}

\* What the request callback can be handed: (error, response).
\*   error     - the transport failed
\*   body      - "undefined" (no response or no body), "garbage" (not JSON),
\*               "json" (parses to results)
\*   rerror    - results['error'] is truthy
\*   areasKind - results.areas is undefined / has no length / is a list
Responses ==
  {[error |-> TRUE, body |-> "undefined", rerror |-> FALSE,
    areasKind |-> "undefined", areas |-> <<>>],
   [error |-> FALSE, body |-> "undefined", rerror |-> FALSE,
    areasKind |-> "undefined", areas |-> <<>>],
   [error |-> FALSE, body |-> "garbage", rerror |-> FALSE,
    areasKind |-> "undefined", areas |-> <<>>]}
  \cup {[error |-> FALSE, body |-> "json", rerror |-> e,
         areasKind |-> k, areas |-> <<>>] :
           e \in BOOLEAN, k \in {"undefined", "nonlist"}}
  \cup {[error |-> FALSE, body |-> "json", rerror |-> e,
         areasKind |-> "list", areas |-> a] :
           e \in BOOLEAN, a \in SeqsUpTo(Units, MaxAreas)}

KeyOf(id) == "key-" \o id
DataOf(id) == "data-" \o id

\* getAreaIdentifiers(id, false), when it does not throw.
getAreaIdentifiers(id) == [id |-> id, key |-> KeyOf(id), areaData |-> DataOf(id)]

SubEntry(name, id, parent) ==
  [name |-> name, id |-> id, key |-> KeyOf(id), subArea |-> TRUE,
   parentId |-> parent, areaData |-> DataOf(id)]

\* getSubAreas(id), when it does not throw: the children of a unit, in order.
getSubAreas(id) ==
  IF id = "a1" THEN <<SubEntry("C", "c1", "a1"), SubEntry("D", "c2", "a1")>>
  ELSE <<>>

\* The root entry queueSearch builds from a unit name and its identifiers.
RootEntry(name, identifiers) ==
  [name |-> name, id |-> identifiers.id, key |-> identifiers.key,
   subArea |-> FALSE, parentId |-> Null, areaData |-> identifiers.areaData]

\* The item lists a caller hands to appendDownloadQueue.
ItemLists ==
  {<<RootEntry("A", getAreaIdentifiers("a1")), RootEntry("B", getAreaIdentifiers("a2"))>>}

\* The archive index the run starts with: unit B was archived by an earlier run.
InitialArchive == {<<"B", "a2">>}

Searches == 1..MaxSearches

\* ------------------------------------------------------------------ state
VARIABLES
  downloadQueue,  \* let downloadQueue = []            (queue.mjs line 5)
  failedAreas,    \* let failedAreas = []              (line 6)
  downloadTimer,  \* let downloadTimer = null          (line 7); 0 is null
  timers,         \* the intervals setInterval has created and nobody cleared
  search,         \* per queueSearch call: the position and locals of its callback
  inflight,       \* archiveArea calls awaited by a processQueueStep invocation
  pops,           \* number of downloadQueue.shift() executed so far
  archived,       \* what isAreaArchived answers from (utils.mjs)
  archiveLog,     \* records written by addArchiveLog
  failedLog,      \* records written by logFailedArchive
  setupLog,       \* how often each log setup hook has been invoked
  appendArgs,     \* the arguments of the appendDownloadQueue calls so far
  escaped,        \* rejections that left processQueueStep unhandled
  alive           \* the process has not been terminated

vars == <<downloadQueue, failedAreas, downloadTimer, timers, search, inflight,
          pops, archived, archiveLog, failedLog, setupLog, appendArgs,
          escaped, alive>>

\* A search record holds the position of the callback (pc), the response it was
\* handed (resp), the loop index i, the local queueAreas and the state of the
\* promise.  One field is bookkeeping of the verification, not of the code:
\*   checked - while getAreaIdentifiers is awaited for results.areas[i], what
\*             was true of that unit when line 44 let it pass
NoFlags == [archived |-> FALSE, queued |-> FALSE, failed |-> FALSE]

IdleSearch ==
  [pc |-> "idle", resp |-> CHOOSE r \in Responses : r.error, i |-> 0,
   queueAreas |-> <<>>, promise |-> "none",
   checked |-> NoFlags]

Init ==
  /\ downloadQueue = <<>>
  /\ failedAreas = <<>>
  /\ downloadTimer = 0
  /\ timers = {}
  /\ search = [s \in Searches |-> IdleSearch]
  /\ inflight = {}
  /\ pops = 0
  /\ archived = InitialArchive
  /\ archiveLog = <<>>
  /\ failedLog = <<>>
  /\ setupLog = [createArchiveLog |-> 0, rotateRunOutputLog |-> 0,
                 rotateFailedDownloadsLog |-> 0]
  /\ appendArgs = <<>>
  /\ escaped = 0
  /\ alive = TRUE

\* ------------------------------------------------------------ dedup index
isAreaArchived(name, id) == <<name, id>> \in archived

\* downloadQueue.some(area => area.areaId === areaId)
isInDownloadQueue(areaId) ==
  \E k \in 1..Len(downloadQueue) : Get(downloadQueue[k], "areaId") = areaId

\* failedAreas.some(area => area.areaName === areaName), over the value
\* failedAreas has at that point of the callback; its elements are strings.
isInFailedAreas(failed, areaName) ==
  \E k \in 1..Len(failed) : GetOfString(failed[k], "areaName") = areaName

\* The three predicates of the Dedup Index as spec.md section 4.1 words them,
\* over the queue and the failed list as they are when line 44 runs.
Archived(unit) == <<unit.name, unit.id>> \in archived
Queued(unit) == \E k \in 1..Len(downloadQueue) : downloadQueue[k].id = unit.id
PreviouslyFailed(unit, failed) == \E k \in 1..Len(failed) : failed[k] = unit.name

CheckedFlags(unit, failed) ==
  [archived |-> Archived(unit), queued |-> Queued(unit),
   failed |-> PreviouslyFailed(unit, failed)]

\* Line 44 without its isAreaArchived test.
SkipIgnoringArchive(unit, failed) ==
  \/ isInDownloadQueue(unit.id)
  \/ isInFailedAreas(failed, unit.name)

\* The condition of the `continue` on line 44.
Skip(unit, failed) ==
  \/ isAreaArchived(unit.name, unit.id)
  \/ isInDownloadQueue(unit.id)
  \/ isInFailedAreas(failed, unit.name)

\* ------------------------------------------------------- outcome recorder
SuccessRecord(name, id, key, subArea, parentId) ==
  [name |-> name, id |-> id, key |-> key, subArea |-> subArea, parentId |-> parentId]

FailureRecord(name, id, key, msg) ==
  [name |-> name, id |-> id, key |-> key, msg |-> msg]

DiscoveryError == "discovery error"
ArchiveFailedMsg == "timeout"

\* ----------------------------------------------------- appendDownloadQueue
\* An append that leaves out the items whose id is already pending.
appendDeduplicated(items) ==
  downloadQueue \o SelectSeq(items, LAMBDA item : ~Queued(item))

appendDownloadQueue(items) == downloadQueue \o items

AppendDownloadQueue(items) ==
  /\ alive
  /\ Len(appendArgs) < MaxAppends
  /\ downloadQueue' = appendDownloadQueue(items)
  /\ appendArgs' = Append(appendArgs, items)
  /\ UNCHANGED <<failedAreas, downloadTimer, timers, search, inflight, pops,
                 archived, archiveLog, failedLog, setupLog, escaped, alive>>

\* ------------------------------------------------------------- queueSearch
\* A promise settles once: reject and resolve on a settled promise do nothing,
\* and neither of them leaves the function that calls it.
Reject(promise) == IF promise = "pending" THEN "rejected" ELSE promise
Resolve(promise) == IF promise = "pending" THEN "resolved" ELSE promise

\* Lines 35-39: the promise after the checks on (error, response).
HeaderPromise(resp) ==
  LET p1 == IF resp.error THEN Reject("pending") ELSE "pending"
      p2 == IF resp.body = "undefined" THEN Reject(p1) ELSE p1
      p3 == IF resp.body = "json" /\ resp.rerror THEN Reject(p2) ELSE p2
      p4 == IF resp.body = "json" /\ resp.areasKind # "list" THEN Reject(p3) ELSE p3
  IN  p4

\* Lines 37 and 39: JSON.parse of a missing or unparsable body throws, and so
\* does reading .length of an undefined results.areas; the outer catch
\* (line 72) then ends the callback.
HeaderThrows(resp) == resp.body # "json" \/ resp.areasKind = "undefined"

\* The loop of lines 41-44 from index i on: the index of the first unit that
\* is not skipped, Len(areas) + 1 when there is none.
RECURSIVE NextIndex(_, _, _)
NextIndex(areas, i, failed) ==
  IF i > Len(areas) THEN i
  ELSE IF Skip(areas[i], failed) THEN NextIndex(areas, i + 1, failed)
       ELSE i

\* A flush that assigns the collected entries instead of concatenating them:
\* what was pending is overwritten.
FlushOverwriting(queueAreas) ==
  IF Len(queueAreas) > 0 THEN queueAreas ELSE downloadQueue

\* Lines 67-70: what downloadQueue is after the loop.
FlushQueueAreas(queueAreas) ==
  IF Len(queueAreas) > 0 THEN downloadQueue \o queueAreas ELSE downloadQueue

\* The callback of search s runs on from index i with locals sr, until it
\* awaits getAreaIdentifiers for the next unit that is not skipped (line 45)
\* or leaves the loop, flushes queueAreas and resolves (lines 67-71).
Resume(s, sr, i, failed) ==
  LET j == NextIndex(sr.resp.areas, i, failed)
  IN  IF j <= Len(sr.resp.areas)
      THEN /\ search' = [search EXCEPT ![s] =
                           [sr EXCEPT !.pc = "awaitIds", !.i = j,
                                      !.checked = CheckedFlags(sr.resp.areas[j], failed)]]
           /\ UNCHANGED downloadQueue
      ELSE /\ search' = [search EXCEPT ![s] =
                           [sr EXCEPT !.pc = "done", !.i = j, !.checked = NoFlags,
                                      !.promise = Resolve(sr.promise)]]
           /\ downloadQueue' = FlushQueueAreas(sr.queueAreas)

\* queueSearch(query): the promise is created and the request is sent.
QueueSearch(s) ==
  /\ alive
  /\ search[s].pc = "idle"
  /\ \A r \in Searches : r < s => search[r].pc # "idle"
  /\ search' = [search EXCEPT ![s].pc = "request", ![s].promise = "pending"]
  /\ UNCHANGED <<downloadQueue, failedAreas, downloadTimer, timers, inflight, pops,
                 archived, archiveLog, failedLog, setupLog, appendArgs,
                 escaped, alive>>

\* The request callback (line 32) is called with resp and runs to its first
\* await or to its end.
SearchCallback(s, resp) ==
  /\ alive
  /\ search[s].pc = "request"
  /\ LET sr == [search[s] EXCEPT !.resp = resp, !.promise = HeaderPromise(resp)]
     IN  IF HeaderThrows(resp)
         THEN /\ search' = [search EXCEPT ![s] =
                              [sr EXCEPT !.pc = "done", !.promise = Reject(sr.promise)]]
              /\ UNCHANGED downloadQueue
         ELSE Resume(s, sr, 1, failedAreas)
  /\ UNCHANGED <<failedAreas, downloadTimer, timers, inflight, pops, archived,
                 archiveLog, failedLog, setupLog, appendArgs, escaped, alive>>

\* A per-unit catch that rejects the promise of the whole search.
UnitCatchRejecting(sr) == [sr EXCEPT !.promise = Reject(sr.promise)]

\* Lines 61-65, the per-unit catch: the locals of the callback afterwards.
\* Neither queueAreas nor the promise is touched and the loop goes on.
UnitCatch(sr) == sr

\* A catch that starts failedAreas afresh with the name of the failed unit.
UnitCatchFailedOnly(unit) == <<unit.name>>

\* Line 63.
UnitCatchFailed(unit) == Append(failedAreas, unit.name)

\* Line 64: results.areas[i] has neither areaId nor areaKey.
UnitCatchRecord(unit) ==
  FailureRecord(unit.name, Get(unit, "areaId"), Get(unit, "areaKey"), DiscoveryError)

\* Line 45: getAreaIdentifiers settles, by a value (ok) or by throwing.
IdentifiersSettled(s, ok) ==
  /\ alive
  /\ search[s].pc = "awaitIds"
  /\ LET sr == search[s]
         unit == sr.resp.areas[sr.i]
     IN  IF ok
         THEN /\ search' = [search EXCEPT ![s] =
                   [sr EXCEPT !.pc = "awaitSubs", !.checked = NoFlags,
                              !.queueAreas = Append(sr.queueAreas,
                                 RootEntry(unit.name, getAreaIdentifiers(unit.id)))]]
              /\ UNCHANGED <<downloadQueue, failedAreas, failedLog>>
         ELSE /\ failedAreas' = UnitCatchFailed(unit)
              /\ failedLog' = Append(failedLog, UnitCatchRecord(unit))
              /\ Resume(s, UnitCatch(sr), sr.i + 1, UnitCatchFailed(unit))
  /\ UNCHANGED <<downloadTimer, timers, inflight, pops, archived, archiveLog,
                 setupLog, appendArgs, escaped, alive>>

\* A concat that puts the children in front of what was collected so far.
ConcatSubAreasFirst(queueAreas, subAreas) ==
  IF Len(subAreas) > 0 THEN subAreas \o queueAreas ELSE queueAreas

\* Lines 57-60: queueAreas after getSubAreas returned subAreas.
ConcatSubAreas(queueAreas, subAreas) ==
  IF Len(subAreas) > 0 THEN queueAreas \o subAreas ELSE queueAreas

\* Line 56: getSubAreas settles, by a value (ok) or by throwing.
SubAreasSettled(s, ok) ==
  /\ alive
  /\ search[s].pc = "awaitSubs"
  /\ LET sr == search[s]
         unit == sr.resp.areas[sr.i]
         identifiers == getAreaIdentifiers(unit.id)
     IN  IF ok
         THEN /\ Resume(s, [sr EXCEPT !.queueAreas =
                              ConcatSubAreas(sr.queueAreas, getSubAreas(identifiers.id))],
                        sr.i + 1, failedAreas)
              /\ UNCHANGED <<failedAreas, failedLog>>
         ELSE /\ failedAreas' = UnitCatchFailed(unit)
              /\ failedLog' = Append(failedLog, UnitCatchRecord(unit))
              /\ Resume(s, UnitCatch(sr), sr.i + 1, UnitCatchFailed(unit))
  /\ UNCHANGED <<downloadTimer, timers, inflight, pops, archived, archiveLog,
                 setupLog, appendArgs, escaped, alive>>

\* -------------------------------------------------------- startDownloadQueue
\* Lines 84-86: the three log setup hooks, each invoked once more.
LogSetup(log) ==
  [createArchiveLog |-> log.createArchiveLog + 1,
   rotateRunOutputLog |-> log.rotateRunOutputLog + 1,
   rotateFailedDownloadsLog |-> log.rotateFailedDownloadsLog + 1]

\* Line 88: setInterval hands out a fresh handle; the interval it replaces in
\* downloadTimer is not cleared.
StartDownloadQueue ==
  /\ alive
  /\ Cardinality(timers) < MaxStarts
  /\ setupLog' = LogSetup(setupLog)
  /\ downloadTimer' = Cardinality(timers) + 1
  /\ timers' = timers \cup {Cardinality(timers) + 1}
  /\ UNCHANGED <<downloadQueue, failedAreas, search, inflight, pops, archived,
                 archiveLog, failedLog, appendArgs, escaped, alive>>

\* A drain step that takes the entry appended last instead of the front one.
TickFromBack(t) ==
  /\ alive
  /\ t \in timers
  /\ pops < MaxPops
  /\ Len(downloadQueue) > 0
  /\ downloadQueue' = SubSeq(downloadQueue, 1, Len(downloadQueue) - 1)
  /\ pops' = pops + 1
  /\ inflight' = inflight \cup {[ticket |-> pops + 1,
                                 areaData |-> downloadQueue[Len(downloadQueue)]]}
  /\ UNCHANGED <<failedAreas, downloadTimer, timers, search, archived, archiveLog,
                 failedLog, setupLog, appendArgs, escaped, alive>>

\* A drain step without the length check of line 119: shift() on an empty
\* array gives undefined and leaves the array empty.
TickUnguarded(t) ==
  /\ alive
  /\ t \in timers
  /\ pops < MaxPops
  /\ downloadQueue' = IF Len(downloadQueue) > 0 THEN Tail(downloadQueue) ELSE <<>>
  /\ pops' = pops + 1
  /\ inflight' = inflight \cup
       {[ticket |-> pops + 1,
         areaData |-> IF Len(downloadQueue) > 0 THEN Head(downloadQueue)
                      ELSE [name |-> Undefined, id |-> Undefined, key |-> Undefined,
                            subArea |-> FALSE, parentId |-> Undefined,
                            areaData |-> Undefined]]}
  /\ UNCHANGED <<failedAreas, downloadTimer, timers, search, archived, archiveLog,
                 failedLog, setupLog, appendArgs, escaped, alive>>

\* ---------------------------------------------------------- processQueueStep
\* Lines 119-123: interval t fires; on a non-empty queue the front entry is
\* shifted off and archiveArea is called with it; the invocation then waits.
Tick(t) ==
  /\ alive
  /\ t \in timers
  /\ pops < MaxPops
  /\ Len(downloadQueue) > 0
  /\ downloadQueue' = Tail(downloadQueue)
  /\ pops' = pops + 1
  /\ inflight' = inflight \cup {[ticket |-> pops + 1, areaData |-> Head(downloadQueue)]}
  /\ UNCHANGED <<failedAreas, downloadTimer, timers, search, archived, archiveLog,
                 failedLog, setupLog, appendArgs, escaped, alive>>

\* What archiveArea can do: return {success: true}, return {success: false},
\* or throw.
ArchiveOutcomes == {"success", "failure", "throw"}

\* What an unhandled rejection does to the process: Node 15 and later end
\* it, earlier versions print a warning and go on.
UnhandledRejection == {TRUE, FALSE}

\* A settlement that puts the entry back at the end of the queue for another
\* try when archiveArea reports failure.
ArchiveSettledRequeue(c, outcome) ==
  /\ alive
  /\ c \in inflight
  /\ inflight' = inflight \ {c}
  /\ LET areaData == c.areaData
     IN  CASE outcome = "success" ->
                /\ archiveLog' = Append(archiveLog,
                     SuccessRecord(areaData.name, areaData.id, areaData.key,
                                   areaData.subArea, areaData.parentId))
                /\ archived' = archived \cup {<<areaData.name, areaData.id>>}
                /\ UNCHANGED <<failedAreas, failedLog, escaped, alive, downloadQueue>>
           [] outcome = "failure" ->
                /\ failedAreas' = Append(failedAreas, areaData.name)
                /\ failedLog' = Append(failedLog,
                     FailureRecord(areaData.name, areaData.id, areaData.key,
                                   ArchiveFailedMsg))
                /\ downloadQueue' = Append(downloadQueue, areaData)
                /\ UNCHANGED <<archiveLog, archived, escaped, alive>>
           [] outcome = "throw" ->
                /\ escaped' = escaped + 1
                /\ alive' \in UnhandledRejection
                /\ UNCHANGED <<archiveLog, archived, failedAreas, failedLog,
                               downloadQueue>>
  /\ UNCHANGED <<downloadTimer, timers, search, pops, setupLog, appendArgs>>

\* Lines 124-135: the archiveArea call of invocation c settles.
\*   success - line 126
\*   failure - lines 128-129
\*   throw   - the catch block reads areaName, which is declared nowhere:
\*             line 132 throws a ReferenceError before anything is recorded,
\*             and the promise of the async function rejects.
ArchiveSettled(c, outcome) ==
  /\ alive
  /\ c \in inflight
  /\ inflight' = inflight \ {c}
  /\ LET areaData == c.areaData
     IN  CASE outcome = "success" ->
                /\ archiveLog' = Append(archiveLog,
                     SuccessRecord(areaData.name, areaData.id, areaData.key,
                                   areaData.subArea, areaData.parentId))
                /\ archived' = archived \cup {<<areaData.name, areaData.id>>}
                /\ UNCHANGED <<failedAreas, failedLog, escaped, alive>>
           [] outcome = "failure" ->
                /\ failedAreas' = Append(failedAreas, areaData.name)
                /\ failedLog' = Append(failedLog,
                     FailureRecord(areaData.name, areaData.id, areaData.key,
                                   ArchiveFailedMsg))
                /\ UNCHANGED <<archiveLog, archived, escaped, alive>>
           [] outcome = "throw" ->
                /\ escaped' = escaped + 1
                /\ alive' \in UnhandledRejection
                /\ UNCHANGED <<archiveLog, archived, failedAreas, failedLog>>
  /\ UNCHANGED <<downloadQueue, downloadTimer, timers, search, pops, setupLog,
                 appendArgs>>

\* ------------------------------------------------------------ specification
Next ==
  \/ \E items \in ItemLists : AppendDownloadQueue(items)
  \/ \E s \in Searches : QueueSearch(s)
  \/ \E s \in Searches, resp \in Responses : SearchCallback(s, resp)
  \/ \E s \in Searches, ok \in BOOLEAN : IdentifiersSettled(s, ok)
  \/ \E s \in Searches, ok \in BOOLEAN : SubAreasSettled(s, ok)
  \/ StartDownloadQueue
  \/ \E t \in timers : Tick(t)
  \/ \E c \in inflight, outcome \in ArchiveOutcomes : ArchiveSettled(c, outcome)

Spec == Init /\ [][Next]_vars

\* Lines 88 and 119-123: a timer created by setInterval keeps calling
\* processQueueStep for as long as the process lives, so a tick that can take
\* an entry is not put off for ever.
TickFires == \E t \in timers : Tick(t)

\* Line 123: the await of an archiveArea call ends when the call settles; that
\* every call settles is an assumption about archiveArea.
ArchiveSettles ==
  \E c \in inflight, outcome \in ArchiveOutcomes : ArchiveSettled(c, outcome)

\* The program with the drain loop scheduled fairly.
FairSpec == Init /\ [][Next]_vars /\ WF_vars(TickFires) /\ WF_vars(ArchiveSettles)

\* ================================================================ claims
Range(seq) == {seq[k] : k \in 1..Len(seq)}

RootA == RootEntry("A", getAreaIdentifiers("a1"))

\* C1: at most one archive operation started by the drain loop is outstanding
\* at any time: no tick shifts an entry and calls archiveArea while the call of
\* an earlier tick has not settled.
C1_AtMostOneInFlight == Cardinality(inflight) <= 1

\* C2: in a run whose entries all come from queueSearch, a unit that had an
\* entry pending in downloadQueue when line 44 examined it is not appended
\* again: queueSearch never pushes a root entry for it, so no id gets to be
\* pending twice.
C2_NoDuplicatePending ==
  [][\A s \in Searches :
       (appendArgs = <<>> /\ search[s].pc = "awaitIds" /\ search'[s].pc = "awaitSubs")
       => ~search[s].checked.queued]_vars

\* C3: a unit whose name was in failedAreas when line 44 examined it gets no
\* entry: queueSearch never pushes a root entry for it.
C3_FailedNeverEnqueued ==
  [][\A s \in Searches :
       (search[s].pc = "awaitIds" /\ search'[s].pc = "awaitSubs")
       => ~search[s].checked.failed]_vars

AllArchived(areas) ==
  \A k \in 1..Len(areas) : isAreaArchived(areas[k].name, areas[k].id)

\* C4: queueSearch starts identifier resolution (and with it child discovery
\* and the push of a root entry) only for a unit isAreaArchived denies, entries
\* are pushed only for the unit under resolution, and a callback whose units
\* are all archived ends at once with downloadQueue as it was.
C4_ArchivedNeverEnqueued ==
  [][\A s \in Searches :
       LET a == search[s]
           b == search'[s]
       IN  /\ (b.pc = "awaitIds" /\ b # a)
              => ~isAreaArchived(b.resp.areas[b.i].name, b.resp.areas[b.i].id)
           /\ (b.queueAreas # a.queueAreas)
              => (a.pc \in {"awaitIds", "awaitSubs"} /\ ~a.checked.archived)
           /\ (a.pc = "request" /\ b.pc # "request" /\ ~HeaderThrows(b.resp)
               /\ AllArchived(b.resp.areas))
              => (b.pc = "done" /\ b.queueAreas = <<>>
                  /\ downloadQueue' = downloadQueue)]_vars

C4_Witness ==
  \E s \in Searches :
    /\ search[s].pc = "done"
    /\ search[s].resp.areasKind = "list"
    /\ ~search[s].resp.rerror
    /\ Len(search[s].resp.areas) = MaxAreas
    /\ AllArchived(search[s].resp.areas)
    /\ search[s].promise = "resolved"
    /\ downloadQueue = <<>>
    /\ pops = 0

\* A transport failure, or a malformed or error-bearing response.
FailingResponse(resp) ==
  resp.error \/ resp.body # "json" \/ resp.rerror \/ resp.areasKind # "list"

\* C5: a queueSearch whose request failed, or whose response is malformed or
\* error-bearing, rejects without appending to downloadQueue and without
\* adding to failedAreas: no step of its callback changes either of them, and
\* its promise ends rejected.
C5_FailingResponseQueuesNothing ==
  [][\A s \in Searches :
       LET a == search[s]
           b == search'[s]
       IN  (a.pc # "idle" /\ b # a /\ FailingResponse(b.resp))
           => /\ downloadQueue' = downloadQueue
              /\ failedAreas' = failedAreas
              /\ (b.pc = "done" => b.promise = "rejected")]_vars

\* A step in which the callback of search s ran its per-unit catch: it was
\* awaiting discovery, and it neither went on to child discovery nor took
\* children into queueAreas.
UnitFailureStep(s) ==
  /\ search[s].pc \in {"awaitIds", "awaitSubs"}
  /\ search'[s] # search[s]
  /\ search'[s].pc # "awaitSubs"
  /\ search'[s].queueAreas = search[s].queueAreas

\* C6: when identifier resolution or child discovery fails for a unit,
\* queueSearch pushes the unit's name onto failedAreas, writes one failure
\* record for it, leaves the promise unrejected and goes on with the units
\* after it: each of them is examined by line 44, and the callback either
\* awaits the next unit that is not skipped or has reached the end of the list
\* and resolves.
\* A search whose response was well-formed therefore always ends resolved,
\* with its whole list processed.
C6_UnitFailureContinues ==
  /\ [][\A s \in Searches :
          LET a == search[s]
              b == search'[s]
              unit == a.resp.areas[a.i]
              n == Len(a.resp.areas)
          IN  UnitFailureStep(s)
              => /\ failedAreas' = Append(failedAreas, unit.name)
                 /\ Len(failedLog') = Len(failedLog) + 1
                 /\ failedLog'[Len(failedLog')].name = unit.name
                 /\ failedLog'[Len(failedLog')].msg = DiscoveryError
                 /\ b.promise = (IF b.pc = "done" THEN Resolve(a.promise) ELSE a.promise)
                 /\ b.i > a.i
                 /\ \A k \in (a.i + 1)..(b.i - 1) :
                      k <= n /\ Skip(a.resp.areas[k], failedAreas')
                 /\ \/ b.pc = "awaitIds" /\ b.i <= n
                    \/ b.pc = "done" /\ b.i = n + 1]_vars
  /\ [](\A s \in Searches :
          (search[s].pc = "done" /\ ~FailingResponse(search[s].resp))
          => /\ search[s].promise = "resolved"
             /\ search[s].i = Len(search[s].resp.areas) + 1)

\* One unit of a two-unit list failed identifier resolution, the other was
\* resolved and queued with its children, and the search resolved.
C6_Witness ==
  \E s \in Searches :
    /\ search[s].pc = "done"
    /\ search[s].promise = "resolved"
    /\ Len(search[s].resp.areas) = 2
    /\ Len(search[s].queueAreas) = 3
    /\ failedAreas = <<"A">>
    /\ Len(failedLog) = 1
    /\ failedLog[1].msg = DiscoveryError
    /\ \A r \in Searches \ {s} : search[r].pc = "idle"
    /\ appendArgs = <<>>
    /\ downloadQueue = search[s].queueAreas

\* C7: no error propagates out of a drain loop tick: processQueueStep never
\* rejects, whatever the archive call does, and the loop goes on.
C7_NoErrorLeavesTick == escaped = 0 /\ alive

\* C8: when the archive call of a popped entry settles, exactly one record is
\* written for that entry: a success record with its name, id, key, subArea
\* and parentId, or a failure record with its name, id and key together with
\* its name being pushed onto failedAreas; never both and never neither.
C8_ExactlyOneRecord ==
  [][\A c \in inflight \ inflight' :
       LET e == c.areaData
       IN  \/ /\ archiveLog' = Append(archiveLog,
                    SuccessRecord(e.name, e.id, e.key, e.subArea, e.parentId))
              /\ failedLog' = failedLog
              /\ failedAreas' = failedAreas
           \/ /\ \E msg \in {ArchiveFailedMsg, Undefined} :
                   failedLog' = Append(failedLog, FailureRecord(e.name, e.id, e.key, msg))
              /\ failedAreas' = Append(failedAreas, e.name)
              /\ archiveLog' = archiveLog]_vars

\* C9: appendDownloadQueue(items) puts exactly items, unchanged and in order,
\* behind the entries already pending, which keep their order; failedAreas is
\* left alone.
C9_AppendVerbatim ==
  [][Len(appendArgs') = Len(appendArgs) + 1
     => /\ downloadQueue' = downloadQueue \o appendArgs'[Len(appendArgs')]
        /\ failedAreas' = failedAreas]_vars

\* Items were appended behind pending entries, one of which has the id of an
\* item.
C9_Witness ==
  /\ Len(appendArgs) = 1
  /\ Len(downloadQueue) > Len(appendArgs[1])
  /\ SubSeq(downloadQueue, Len(downloadQueue) - Len(appendArgs[1]) + 1,
            Len(downloadQueue)) = appendArgs[1]
  /\ downloadQueue[1] = RootA
  /\ RootA \in Range(appendArgs[1])
  /\ failedAreas = <<>>

\* C10: the log setup hooks run once: a second startDownloadQueue does not
\* create or rotate the logs again.
C10_SetupOnce ==
  /\ setupLog.createArchiveLog <= 1
  /\ setupLog.rotateRunOutputLog <= 1
  /\ setupLog.rotateFailedDownloadsLog <= 1

Settled(promise) == promise \in {"resolved", "rejected"}

\* C11: the promise of a queueSearch call settles only in the step that ends
\* the call, after the whole list has been gone through and queueAreas has
\* been put on downloadQueue; once the promise has settled, the call changes
\* neither downloadQueue nor failedAreas.
C11_SettlesAfterAllAppends ==
  [][\A s \in Searches :
       LET a == search[s]
           b == search'[s]
       IN  /\ (~Settled(a.promise) /\ Settled(b.promise)) => b.pc = "done"
           /\ (Settled(a.promise) /\ b # a)
              => (downloadQueue' = downloadQueue /\ failedAreas' = failedAreas)]_vars

\* C12: within one pass no unit gets two root entries: queueAreas never holds
\* two root entries with the same id, also when the areas list names the unit
\* twice.
C12_OneRootPerUnitPerPass ==
  \A s \in Searches :
    \A j, k \in 1..Len(search[s].queueAreas) :
      LET x == search[s].queueAreas[j]
          y == search[s].queueAreas[k]
      IN  (j # k /\ ~x.subArea /\ ~y.subArea) => x.id # y.id

\* C13: a tick that finds the queue non-empty takes off exactly the front
\* entry; the rest of processQueueStep leaves the queue alone, so a popped
\* entry is never put back; the queue only grows by appendDownloadQueue or by
\* the flush that ends a queueSearch call.
C13_TickRemovesFrontOnly ==
  [][/\ pops' = pops + 1 => downloadQueue' = Tail(downloadQueue)
     /\ (pops' = pops /\ inflight' # inflight) => downloadQueue' = downloadQueue
     /\ Len(downloadQueue') > Len(downloadQueue)
        => \/ Len(appendArgs') > Len(appendArgs)
           \/ \E s \in Searches : search[s].pc # "done" /\ search'[s].pc = "done"]_vars

\* Both appended items were popped, one archive reported failure, and the
\* queue is empty: the failed entry was not put back.
C13_Witness ==
  /\ Len(appendArgs) = 1
  /\ \A s \in Searches : search[s].pc = "idle"
  /\ pops = Len(appendArgs[1])
  /\ inflight = {}
  /\ downloadQueue = <<>>
  /\ \E k \in 1..Len(failedLog) : failedLog[k].msg = ArchiveFailedMsg

\* C14: the queue is first in, first out: every change of downloadQueue is
\* either an append behind the pending entries, which keep their order, or
\* the removal of the front entry by the tick that starts the archive call
\* for that very entry, the calls being numbered in the order they start.
C14_FirstInFirstOut ==
  [][\/ /\ downloadQueue' = downloadQueue
        /\ pops' = pops
     \/ /\ Len(downloadQueue') > Len(downloadQueue)
        /\ SubSeq(downloadQueue', 1, Len(downloadQueue)) = downloadQueue
        /\ pops' = pops
     \/ /\ Len(downloadQueue) > 0
        /\ downloadQueue' = Tail(downloadQueue)
        /\ pops' = pops + 1
        /\ inflight' = inflight \cup {[ticket |-> pops + 1,
                                       areaData |-> Head(downloadQueue)]}]_vars

\* The block of one queueSearch call was followed by the appended items; the
\* first two archive calls are those of the first two entries, in that order,
\* and the rest is pending in append order.
C14_Witness ==
  /\ Len(appendArgs) = 1
  /\ inflight = {[ticket |-> 1, areaData |-> RootA],
                 [ticket |-> 2, areaData |-> getSubAreas("a1")[1]]}
  /\ downloadQueue = <<getSubAreas("a1")[2]>> \o appendArgs[1]

\* The entries queueSearch produces for unit A when both discoveries succeed.
BlockA == <<RootA>> \o getSubAreas("a1")

\* Position of child entry e in the list getSubAreas returns for its parent.
ChildIndex(e) ==
  CHOOSE n \in 1..Len(getSubAreas(e.parentId)) : getSubAreas(e.parentId)[n] = e

\* In queue, every child entry stands where its block puts it: the first child
\* directly behind a root entry of its parent, every other child directly
\* behind the child before it, and every child but the last directly in front
\* of the next one. frontPopped allows the entry at the front to have lost its
\* predecessor to the drain loop.
Contiguous(queue, frontPopped) ==
  \A k \in 1..Len(queue) :
    LET e == queue[k]
    IN  e.subArea =>
          LET children == getSubAreas(e.parentId)
              n == ChildIndex(e)
          IN  /\ e \in Range(children)
              /\ \/ k = 1 /\ frontPopped
                 \/ /\ k > 1
                    /\ IF n = 1
                       THEN queue[k - 1] = RootEntry(queue[k - 1].name,
                                                     getAreaIdentifiers(e.parentId))
                       ELSE queue[k - 1] = children[n - 1]
              /\ n < Len(children) => (k < Len(queue) /\ queue[k + 1] = children[n + 1])

\* C15: the root entry of a unit (subArea false, parentId null, the resolved
\* id, key and areaData) and the entries of its children are one contiguous
\* block, the root first and the children behind it in getSubAreas order,
\* both in the queueAreas of every call and in downloadQueue, where no entry
\* of another call or of appendDownloadQueue stands inside a block.
C15_RootAndChildrenContiguous ==
  /\ Contiguous(downloadQueue, pops > 0)
  /\ \A s \in Searches :
       /\ Contiguous(search[s].queueAreas, FALSE)
       /\ \A k \in 1..Len(search[s].queueAreas) :
            LET e == search[s].queueAreas[k]
            IN  ~e.subArea
                => /\ e.parentId = Null
                   /\ e = RootEntry(e.name, getAreaIdentifiers(e.id))
                   /\ [name |-> e.name, id |-> e.id] \in Range(search[s].resp.areas)

\* Two calls each put the block of unit A on the queue, with the appended
\* items between the two blocks.
C15_Witness ==
  /\ \A s \in Searches : search[s].pc = "done" /\ search[s].queueAreas = BlockA
  /\ Len(appendArgs) = 1
  /\ pops = 0
  /\ downloadQueue = BlockA \o appendArgs[1] \o BlockA

\* Number of entries in the first n lists of a sequence of lists.
RECURSIVE SumLen(_, _)
SumLen(lists, n) == IF n = 0 THEN 0 ELSE Len(lists[n]) + SumLen(lists, n - 1)

\* Number of entries the queueSearch calls 1..n have put on downloadQueue.
RECURSIVE Flushed(_)
Flushed(n) ==
  IF n = 0 THEN 0
  ELSE (IF search[n].pc = "done" THEN Len(search[n].queueAreas) ELSE 0) + Flushed(n - 1)

\* C16: no append is lost and no entry is popped twice: the entries pending
\* and the entries popped add up to the entries appended by appendDownloadQueue
\* and by the queueSearch calls that have ended, and every archive call in
\* flight belongs to a pop of its own.
C16_NoLostAppendNoDoublePop ==
  /\ Len(downloadQueue) + pops = SumLen(appendArgs, Len(appendArgs)) + Flushed(MaxSearches)
  /\ \A c \in inflight : c.ticket \in 1..pops
  /\ \A c, d \in inflight : c.ticket = d.ticket => c = d

\* A queueSearch call and appendDownloadQueue both appended while the drain
\* loop was popping, two archive calls overlap, and entries are still pending.
C16_Witness ==
  /\ Len(appendArgs) = 1
  /\ \E s \in Searches : search[s].pc = "done" /\ search[s].queueAreas = BlockA
  /\ \E s \in Searches : search[s].pc = "awaitSubs"
  /\ pops = MaxPops
  /\ Cardinality(inflight) = 2
  /\ Len(downloadQueue) = Len(BlockA) + Len(appendArgs[1]) - pops
  /\ downloadQueue[Len(downloadQueue)] \in Range(BlockA)

\* C17: failedAreas only grows: every step leaves the names recorded so far
\* in place and at most adds names behind them.
C17_FailedAppendOnly ==
  [][/\ Len(failedAreas') >= Len(failedAreas)
     /\ SubSeq(failedAreas', 1, Len(failedAreas)) = failedAreas]_vars

\* Names were recorded by a failed discovery and by a failed archive call,
\* and both are still there.
C17_Witness ==
  /\ Len(failedAreas) >= 2
  /\ \E j, k \in 1..Len(failedLog) :
       /\ failedLog[j].msg = DiscoveryError
       /\ failedLog[k].msg = ArchiveFailedMsg
       /\ j < k
       /\ failedAreas[j] = failedLog[j].name
       /\ failedAreas[k] = failedLog[k].name

\* C18: when the discovery of a unit fails, be it getAreaIdentifiers or
\* getSubAreas after getAreaIdentifiers succeeded, the pass has put no root
\* entry for this occurrence of the unit on queueAreas, so none reaches
\* downloadQueue: the unit is not both recorded as failed and left pending.
C18_FailedDiscoveryQueuesNoRoot ==
  [][\A s \in Searches :
       LET a == search[s]
           unit == a.resp.areas[a.i]
           n == Len(a.queueAreas)
       IN  UnitFailureStep(s)
           => ~(n > 0 /\ a.queueAreas[n] = RootEntry(unit.name, getAreaIdentifiers(unit.id)))]_vars

\* C19: processQueueStep never shifts an empty queue: every step that takes an
\* entry off starts from a queue that holds at least one, also when ticks of
\* several timers overlap or an earlier archive call is still pending, so
\* what is passed to archiveArea is an entry that was appended.
C19_NeverPopsEmpty ==
  [][pops' = pops + 1
     => /\ Len(downloadQueue) > 0
        /\ \E c \in inflight' \ inflight : c.areaData = Head(downloadQueue)]_vars

\* Two timers are running, the only pending entry was popped and its archive
\* call has not settled: the queue is empty while ticks keep firing.
C19_Witness ==
  /\ Cardinality(timers) = 2
  /\ pops = 1
  /\ Cardinality(inflight) = 1
  /\ downloadQueue = <<>>
  /\ \E s \in Searches : search[s].pc = "done" /\ Len(search[s].queueAreas) = 1
  /\ alive

\* C20: once startDownloadQueue has set a timer, with ticks firing fairly and
\* every archive call settling, no pending entry waits for ever: whenever
\* entries are pending after n pops, an (n+1)-th pop follows, also when an
\* archive call before it failed or threw. (Stated for the pops that
\* MaxPops allows.)
C20_PendingEventuallyPopped ==
  \A n \in 0..(MaxPops - 1) :
    (timers # {} /\ Len(downloadQueue) > 0 /\ pops = n) ~> (pops > n)

====
